---- MODULE Spec2Model ----
(***************************************************************************)
(* Request pipeline of the investment RAG chat bot:                        *)
(*   src/app.py         ChatRequest validation, process_chat_request       *)
(*   src/llm_client.py  InvestmentLLMClient.generate_response (retry loop) *)
(* Texts are sequences: the fixed phrases of the program are single        *)
(* elements (transliterated), retrieved context, model answers and user    *)
(* queries are sequences of characters, " " being whitespace.              *)
(***************************************************************************)
EXTENDS Integers, Sequences, FiniteSets, TLC

\* ------------------------------------------------------------- bounds
MaxCtxLen == 2
MaxAnswerLen == 2
MaxInputLen == 2
MaxLatency == 1

\* ------------------------------------------------- program constants
MinQueryLength == 1
MaxQueryLength == 1000
MaxAttempts == 3
LastAttempt == 2
RetryDelay == 1
BackoffBase == 2
StatusOk == 200
StatusRateLimit == 429
MsPerSecond == 1000
\* resolution of the clock: ticks per millisecond, finer than round(..., 3)
TicksPerMs == 2

\* requests handled by the server; Spec runs the first one alone
Reqs == {1, 2}
Sequential == {1}

CtxChars == {"k", " "}
AnswerChars == {"m", " "}
QueryChars == {"q", " "}
ErrorStatuses == {401, 500}

SeqsUpTo(S, n) == UNION {[1..k -> S] : k \in 0..n}

Contexts == SeqsUpTo(CtxChars, MaxCtxLen)
Answers == SeqsUpTo(AnswerChars, MaxAnswerLen)
Repeat(c, n) == [i \in 1..n |-> c]

\* inputs around the max_length of ChatRequest.query
LongInputs ==
  {Repeat("q", MaxQueryLength), Repeat("q", MaxQueryLength + 1),
   <<" ">> \o Repeat("q", MaxQueryLength - 1), <<" ">> \o Repeat("q", MaxQueryLength)}

Inputs == SeqsUpTo(QueryChars, MaxInputLen) \cup LongInputs

\* what knowledge_base.search can raise
Faults == {"ConnectionError", "ValueError"}

\* durations of one http_client.post, in ticks
Latencies == 0..MaxLatency

NoToken == ""
Tokens == {NoToken, "sk-token"}

\* ------------------------------------------------------ str.strip()
IsSpace(c) == c = " "

RECURSIVE LStrip(_)
LStrip(s) == IF s # <<>> /\ IsSpace(Head(s)) THEN LStrip(Tail(s)) ELSE s

RECURSIVE RStrip(_)
RStrip(s) ==
  IF s # <<>> /\ IsSpace(s[Len(s)]) THEN RStrip(SubSeq(s, 1, Len(s) - 1)) ELSE s

Strip(s) == RStrip(LStrip(s))

\* ----------------------------------------------------- fixed texts
\* llm_client.py:89
AskQuestionText == <<"Pozhaluysta, zadayte vopros ob investicionnyh produktah.">>
\* llm_client.py:94
UnconfiguredText ==
  <<"Servis vremenno nedostupen.", "Obratites' k specialistam po telefonu.">>
\* app.py:386 (the part before {context})
FallbackContextPrefix ==
  <<"Izvinite, servis generacii otvetov vremenno nedostupen.",
    "Vot informaciya iz nashey bazy znaniy:", "\n", "\n">>
\* app.py:388
FallbackNoContextText ==
  <<"Izvinite, servis vremenno nedostupen.",
    "Pozhaluysta, obratites' k specialistam po telefonu ili cherez sayt.">>
\* app.py:404
InternalErrorDetail == <<"Vnutrennyaya oshibka servera. Poprobuyte pozzhe.">>
\* llm_client.py:169
TestQuery == <<"T", "e", "s", "t">>
TestContext == <<"Testovaya informaciya">>

\* ---------------------------------------------------------- state
VARIABLES
  api_token,      \* InvestmentLLMClient.api_token (config.proxy_api_token)
  pc,             \* position of each request in its handler
  input,          \* raw query text of the HTTP request
  query,          \* request.query after ChatRequest validation
  context,        \* result of knowledge_base.search
  context_found,  \* bool(context)
  attempt,        \* loop variable of "for attempt in range(3)"
  wait_time,      \* argument of the pending asyncio.sleep
  result,         \* how generate_response ended
  response,       \* what the handler gave back to the caller
  log,            \* calls made to collaborators: search, post, sleep
  mode,           \* which entry point runs: POST /chat or health_check
  llm_health,     \* what health_check returned
  now,            \* time.time(), in ticks
  start_time      \* start_time of process_chat_request

vars == <<api_token, pc, input, query, context, context_found, attempt,
          wait_time, result, response, log, mode, llm_health, now, start_time>>

\* ----------------------------------------------------- log entries
NoOutcome == [kind |-> "none", status |-> 0, has_content |-> FALSE, content |-> <<>>]
Pending == [kind |-> "pending", status |-> 0, has_content |-> FALSE, content |-> <<>>]
Returned == [kind |-> "returned", status |-> 0, has_content |-> FALSE, content |-> <<>>]
Raised == [kind |-> "raised", status |-> 0, has_content |-> FALSE, content |-> <<>>]
RaisedWith(f) == [Raised EXCEPT !.content = <<f>>]

\* what one http_client.post can end in
PostOutcomes ==
  {[kind |-> "response", status |-> StatusOk, has_content |-> TRUE, content |-> a] :
      a \in Answers}
  \cup {[kind |-> "response", status |-> s, has_content |-> FALSE, content |-> <<>>] :
      s \in {StatusOk, StatusRateLimit} \cup ErrorStatuses}
  \cup {[kind |-> "timeout", status |-> 0, has_content |-> FALSE, content |-> <<>>],
        [kind |-> "error", status |-> 0, has_content |-> FALSE, content |-> <<>>]}

SearchEvent(q, o) ==
  [ev |-> "search", attempt |-> 0, dur |-> 0, outcome |-> o, query |-> q,
   messages |-> <<>>]
PostEvent(k, msgs, o) ==
  [ev |-> "post", attempt |-> k, dur |-> 0, outcome |-> o, query |-> <<>>,
   messages |-> msgs]
SleepEvent(k, d) ==
  [ev |-> "sleep", attempt |-> k, dur |-> d, outcome |-> NoOutcome, query |-> <<>>,
   messages |-> <<>>]

\* ------------------------------------------- results and responses
NoResult == [outcome |-> "none", error |-> "", status |-> 0, text |-> <<>>]
Return(t) == [outcome |-> "return", error |-> "", status |-> 0, text |-> t]
Raise(e, s) == [outcome |-> "raise", error |-> e, status |-> s, text |-> <<>>]

NoResponse ==
  [kind |-> "none", text |-> <<>>, context_found |-> FALSE, processing_time |-> 0]
ChatResponse(t, f) ==
  [kind |-> "ChatResponse", text |-> t, context_found |-> f, processing_time |-> 0]
ValidationError ==
  [kind |-> "ValidationError", text |-> <<>>, context_found |-> FALSE,
   processing_time |-> 0]
InternalError ==
  [kind |-> "HTTPException", text |-> InternalErrorDetail, context_found |-> FALSE,
   processing_time |-> 0]

NoHealth == [returned |-> FALSE, value |-> FALSE]
Health(b) == [returned |-> TRUE, value |-> b]

\* -------------------------------------------- ChatRequest (app.py)
\* faulty variant: the validator that refuses blank text is missing
ValidQuery_NoBlankCheck(v) ==
  /\ Len(v) >= MinQueryLength
  /\ Len(v) <= MaxQueryLength

\* faulty variant: the length limits are applied to the trimmed text
ValidQuery_TrimmedLength(v) ==
  /\ Len(Strip(v)) >= MinQueryLength
  /\ Len(Strip(v)) <= MaxQueryLength

\* Field(min_length=1, max_length=1000) on the text as sent, then validate_query
ValidQuery(v) ==
  /\ Len(v) >= MinQueryLength
  /\ Len(v) <= MaxQueryLength
  /\ ~(v = <<>> \/ Strip(v) = <<>>)

\* ----------------------------- generate_response: the attempt loop
\* faulty variant: the rate-limit wait does not grow with the attempt
RateLimitWait_Fixed(k) == RetryDelay

RateLimitWait(k) == BackoffBase ^ k

\* faulty variant: off-by-one in the last-attempt test
IsLastAttempt_OffByOne(k) == k = MaxAttempts

IsLastAttempt(k) == k = LastAttempt

\* faulty variant: the loop runs one attempt too many
HasNextAttempt_OneMore(k) == k + 1 <= MaxAttempts

HasNextAttempt(k) == k + 1 < MaxAttempts

\* faulty variant: every non-200 status is retried like a rate limit
OnStatus_RetriesErrors(o, k) ==
  IF o.status = StatusOk
    THEN IF o.has_content
           THEN [do |-> "finish", result |-> Return(Strip(o.content)), wait |-> 0]
           ELSE [do |-> "finish", result |-> Raise("InternalError", 0), wait |-> 0]
  ELSE [do |-> "sleep", result |-> NoResult, wait |-> RateLimitWait(k)]

\* faulty variant: a rate limit on the last attempt gives up at once, without sleeping
OnStatus_FinalRateLimitRaises(o, k) ==
  IF o.status = StatusOk
    THEN IF o.has_content
           THEN [do |-> "finish", result |-> Return(Strip(o.content)), wait |-> 0]
           ELSE [do |-> "finish", result |-> Raise("InternalError", 0), wait |-> 0]
  ELSE IF o.status = StatusRateLimit
    THEN IF IsLastAttempt(k)
           THEN [do |-> "finish", result |-> Raise("AttemptsExhausted", 0), wait |-> 0]
           ELSE [do |-> "sleep", result |-> NoResult, wait |-> RateLimitWait(k)]
  ELSE [do |-> "finish", result |-> Raise("ApiError", o.status), wait |-> 0]

\* faulty variant: the answer is returned without .strip()
OnStatus_NoStrip(o, k) ==
  IF o.status = StatusOk
    THEN IF o.has_content
           THEN [do |-> "finish", result |-> Return(o.content), wait |-> 0]
           ELSE [do |-> "finish", result |-> Raise("InternalError", 0), wait |-> 0]
  ELSE IF o.status = StatusRateLimit
    THEN [do |-> "sleep", result |-> NoResult, wait |-> RateLimitWait(k)]
  ELSE [do |-> "finish", result |-> Raise("ApiError", o.status), wait |-> 0]

\* what the loop body does with a response (lines 125-141)
OnStatus(o, k) ==
  IF o.status = StatusOk
    THEN IF o.has_content
           THEN [do |-> "finish", result |-> Return(Strip(o.content)), wait |-> 0]
           ELSE [do |-> "finish", result |-> Raise("InternalError", 0), wait |-> 0]
  ELSE IF o.status = StatusRateLimit
    THEN [do |-> "sleep", result |-> NoResult, wait |-> RateLimitWait(k)]
  ELSE [do |-> "finish", result |-> Raise("ApiError", o.status), wait |-> 0]

\* faulty variant: a timeout never raises, the loop just runs out
OnTimeout_AlwaysRetries(k) == [do |-> "sleep", result |-> NoResult, wait |-> RetryDelay]

\* except httpx.TimeoutException (lines 143-147)
OnTimeout(k) ==
  IF IsLastAttempt(k)
    THEN [do |-> "finish", result |-> Raise("TimeoutFailure", 0), wait |-> 0]
    ELSE [do |-> "sleep", result |-> NoResult, wait |-> RetryDelay]

\* faulty variant: a transport error backs off like a rate limit
OnRequestError_Backoff(k) ==
  IF IsLastAttempt(k)
    THEN [do |-> "finish", result |-> Raise("NetworkFailure", 0), wait |-> 0]
    ELSE [do |-> "sleep", result |-> NoResult, wait |-> RateLimitWait(k)]

\* except httpx.RequestError (lines 149-153)
OnRequestError(k) ==
  IF IsLastAttempt(k)
    THEN [do |-> "finish", result |-> Raise("NetworkFailure", 0), wait |-> 0]
    ELSE [do |-> "sleep", result |-> NoResult, wait |-> RetryDelay]

Classify(o, k) ==
  CASE o.kind = "response" -> OnStatus(o, k)
    [] o.kind = "timeout" -> OnTimeout(k)
    [] OTHER -> OnRequestError(k)

\* ------------------------------- process_chat_request: the fallback
\* faulty variant: the two fallback texts are swapped
FallbackText_Swapped(found, ctx) ==
  IF found THEN FallbackNoContextText ELSE FallbackContextPrefix \o ctx

FallbackText(found, ctx) ==
  IF found THEN FallbackContextPrefix \o ctx ELSE FallbackNoContextText

\* faulty variant: the handler catches nothing, so a raised LLMAPIError reaches
\* "except Exception" and becomes the HTTP 500
Answer_Uncaught(res, found, ctx) ==
  IF res.outcome = "raise" THEN InternalError ELSE ChatResponse(res.text, found)

\* faulty variant: an error of reading the body is not an LLMAPIError, so it
\* passes the handler's except clause and becomes the HTTP 500
Answer_BodyErrorUncaught(res, found, ctx) ==
  IF res.outcome = "raise"
    THEN IF res.error = "InternalError"
           THEN InternalError
           ELSE ChatResponse(FallbackText(found, ctx), found)
    ELSE ChatResponse(res.text, found)

\* try/except LLMAPIError around generate_response, then ChatResponse(...)
Answer(res, found, ctx) ==
  IF res.outcome = "raise"
    THEN ChatResponse(FallbackText(found, ctx), found)
    ELSE ChatResponse(res.text, found)

\* faulty variant: a context of blanks only counts as no context
ContextFound_Stripped(ctx) == Strip(ctx) # <<>>

\* bool(context) (app.py:372)
ContextFound(ctx) == ctx # <<>>

\* faulty variant: the detail of the HTTP 500 carries the fault
OnFault_LeaksDetail(f) == [InternalError EXCEPT !.text = <<f>>]

\* except Exception (app.py:400-405)
OnFault(f) == InternalError

\* --------------------------------------------------- the clock
SleepTicks(w) == w * MsPerSecond * TicksPerMs

\* round(x, 3) of a duration of t ticks, in milliseconds (ties go to even)
Round3(t) ==
  LET q == t \div TicksPerMs
      rem == t % TicksPerMs
  IN IF 2 * rem < TicksPerMs THEN q
     ELSE IF 2 * rem > TicksPerMs THEN q + 1
     ELSE IF q % 2 = 0 THEN q ELSE q + 1

\* faulty variant: the difference is taken the wrong way round
ProcessingTime_Reversed(start, end) == Round3(start - end)

\* round(time.time() - start_time, 3) (app.py:390-397)
ProcessingTime(start, end) == Round3(end - start)

\* ------------------------------------------- _build_messages
SystemContent ==
  <<"Ty - professional'nyy konsul'tant po investicionnym produktam. ... Stil': delovoy, no ponyatnyy dlya klientov.">>
KnowledgeHeader == "Informaciya iz bazy znaniy:"
QuestionLabel == "Vopros klienta: "
AnswerFromContext == "Otvet' na osnove predostavlennoy informacii."
NothingFound ==
  "V baze znaniy ne naydeno relevantnoy informacii. Otvet' chto ne mozhesh' dat' tochnyy otvet i predlozhi obratit'sya k specialistam."

UserWithContext(q, ctx) ==
  <<KnowledgeHeader, "\n", "\n">> \o ctx \o <<"\n", "\n", QuestionLabel>> \o q
    \o <<"\n", "\n", AnswerFromContext>>

UserWithoutContext(q) == <<QuestionLabel>> \o q \o <<"\n", "\n", NothingFound>>

\* faulty variant: the query is put before the knowledge block
BuildMessages_QueryFirst(q, ctx) ==
  <<[role |-> "system", content |-> SystemContent],
    [role |-> "user",
     content |-> IF ctx # <<>>
                   THEN <<QuestionLabel>> \o q \o <<"\n", "\n", KnowledgeHeader>> \o ctx
                   ELSE UserWithoutContext(q)]>>

\* faulty variant: a context of blanks only gets the prompt for no context
BuildMessages_BlankIsAbsent(q, ctx) ==
  <<[role |-> "system", content |-> SystemContent],
    [role |-> "user",
     content |-> IF Strip(ctx) # <<>>
                   THEN UserWithContext(q, ctx) ELSE UserWithoutContext(q)]>>

BuildMessages(q, ctx) ==
  <<[role |-> "system", content |-> SystemContent],
    [role |-> "user",
     content |-> IF ctx # <<>> THEN UserWithContext(q, ctx) ELSE UserWithoutContext(q)]>>

\* ------------------------------------------------ health_check
\* bool(test_response), False on any exception (llm_client.py:165-172)
HealthOf(res) == IF res.outcome = "raise" THEN FALSE ELSE res.text # <<>>

\* faulty variant: asyncio.sleep is not awaited, the loop body just starts over
NextPc_NoAwait(c) == IF c.do = "sleep" THEN "post" ELSE "respond"

\* faulty variant: a retried attempt is awaited again instead of re-issued
NextPc_Stuck(c) == IF c.do = "sleep" THEN "inflight" ELSE "respond"

\* where the loop body suspends or leaves after a post
NextPc(c) == IF c.do = "sleep" THEN "sleep" ELSE "respond"

\* ---------------------------------------------------------- Init
Init ==
  /\ api_token \in Tokens
  /\ pc = [r \in Reqs |-> "idle"]
  /\ input = [r \in Reqs |-> <<>>]
  /\ query = [r \in Reqs |-> <<>>]
  /\ context = [r \in Reqs |-> <<>>]
  /\ context_found = [r \in Reqs |-> FALSE]
  /\ attempt = [r \in Reqs |-> 0]
  /\ wait_time = [r \in Reqs |-> 0]
  /\ result = [r \in Reqs |-> NoResult]
  /\ response = [r \in Reqs |-> NoResponse]
  /\ log = [r \in Reqs |-> <<>>]
  /\ mode = [r \in Reqs |-> "none"]
  /\ llm_health = [r \in Reqs |-> NoHealth]
  /\ now = 0
  /\ start_time = [r \in Reqs |-> 0]

\* -------------------------------------------------------- actions
\* POST /chat arrives: pydantic validates the body, then the handler starts
Receive(r, v) ==
  /\ pc[r] = "idle"
  /\ input' = [input EXCEPT ![r] = v]
  /\ mode' = [mode EXCEPT ![r] = "chat"]
  /\ IF ValidQuery(v)
       THEN /\ query' = [query EXCEPT ![r] = Strip(v)]
            /\ start_time' = [start_time EXCEPT ![r] = now]
            /\ pc' = [pc EXCEPT ![r] = "search"]
            /\ UNCHANGED response
       ELSE /\ pc' = [pc EXCEPT ![r] = "rejected"]
            /\ response' = [response EXCEPT ![r] = ValidationError]
            /\ UNCHANGED <<query, start_time>>
  /\ UNCHANGED <<api_token, context, context_found, attempt, wait_time, result, log,
                 llm_health, now>>

\* knowledge_base.search returns ctx (app.py:371-372)
Search(r, ctx) ==
  /\ pc[r] = "search"
  /\ context' = [context EXCEPT ![r] = ctx]
  /\ context_found' = [context_found EXCEPT ![r] = ContextFound(ctx)]
  /\ log' = [log EXCEPT ![r] = Append(@, SearchEvent(query[r], Returned))]
  /\ pc' = [pc EXCEPT ![r] = "generate"]
  /\ UNCHANGED <<api_token, input, query, attempt, wait_time, result, response,
                 mode, llm_health, now, start_time>>

\* knowledge_base.search raises f: caught by "except Exception" (app.py:400-405)
SearchFaults(r, f) ==
  /\ pc[r] = "search"
  /\ log' = [log EXCEPT ![r] = Append(@, SearchEvent(query[r], RaisedWith(f)))]
  /\ response' = [response EXCEPT ![r] = OnFault(f)]
  /\ pc' = [pc EXCEPT ![r] = "done"]
  /\ UNCHANGED <<api_token, input, query, context, context_found, attempt,
                 wait_time, result, mode, llm_health, now, start_time>>

\* GET /health reaches llm_client.health_check (llm_client.py:165-169)
Probe(r) ==
  /\ pc[r] = "idle"
  /\ mode' = [mode EXCEPT ![r] = "probe"]
  /\ query' = [query EXCEPT ![r] = TestQuery]
  /\ context' = [context EXCEPT ![r] = TestContext]
  /\ pc' = [pc EXCEPT ![r] = "generate"]
  /\ UNCHANGED <<api_token, input, context_found, attempt, wait_time, result,
                 response, log, llm_health, now, start_time>>

\* generate_response up to the loop (llm_client.py:88-117)
GenerateStart(r) ==
  /\ pc[r] = "generate"
  /\ IF query[r] = <<>> \/ Strip(query[r]) = <<>>
       THEN /\ result' = [result EXCEPT ![r] = Return(AskQuestionText)]
            /\ pc' = [pc EXCEPT ![r] = "respond"]
            /\ UNCHANGED attempt
       ELSE IF api_token = NoToken
         THEN /\ result' = [result EXCEPT ![r] = Return(UnconfiguredText)]
              /\ pc' = [pc EXCEPT ![r] = "respond"]
              /\ UNCHANGED attempt
         ELSE /\ attempt' = [attempt EXCEPT ![r] = 0]
              /\ pc' = [pc EXCEPT ![r] = "post"]
              /\ UNCHANGED result
  /\ UNCHANGED <<api_token, input, query, context, context_found, wait_time,
                 response, log, mode, llm_health, now, start_time>>

\* await self.http_client.post(...) is issued (llm_client.py:119)
SendPost(r) ==
  /\ pc[r] = "post"
  /\ log' = [log EXCEPT ![r] =
               Append(@, PostEvent(attempt[r], BuildMessages(query[r], context[r]),
                                   Pending))]
  /\ pc' = [pc EXCEPT ![r] = "inflight"]
  /\ UNCHANGED <<api_token, input, query, context, context_found, attempt,
                 wait_time, result, response, mode, llm_health, now, start_time>>

\* the post ends in o after d ticks; the loop body runs to its next await or
\* to its exit
PostReturns(r, o, d) ==
  /\ pc[r] = "inflight"
  /\ now' = now + d
  /\ log' = [log EXCEPT ![r] = [@ EXCEPT ![Len(@)].outcome = o]]
  /\ LET c == Classify(o, attempt[r]) IN
       /\ pc' = [pc EXCEPT ![r] = NextPc(c)]
       /\ IF c.do = "sleep"
            THEN /\ wait_time' = [wait_time EXCEPT ![r] = c.wait]
                 /\ UNCHANGED result
            ELSE /\ result' = [result EXCEPT ![r] = c.result]
                 /\ UNCHANGED wait_time
  /\ UNCHANGED <<api_token, input, query, context, context_found, attempt, response,
                 mode, llm_health, start_time>>

\* asyncio.sleep returns; the loop goes to its next attempt or runs out (line 155)
SleepElapsed(r) ==
  /\ pc[r] = "sleep"
  /\ now' = now + SleepTicks(wait_time[r])
  /\ log' = [log EXCEPT ![r] = Append(@, SleepEvent(attempt[r], wait_time[r]))]
  /\ IF HasNextAttempt(attempt[r])
       THEN /\ attempt' = [attempt EXCEPT ![r] = @ + 1]
            /\ pc' = [pc EXCEPT ![r] = "post"]
            /\ UNCHANGED result
       ELSE /\ result' = [result EXCEPT ![r] = Raise("AttemptsExhausted", 0)]
            /\ pc' = [pc EXCEPT ![r] = "respond"]
            /\ UNCHANGED attempt
  /\ UNCHANGED <<api_token, input, query, context, context_found, wait_time, response,
                 mode, llm_health, start_time>>

\* generate_response is over: fallback if it raised, then the response (app.py:382-398)
Respond(r) ==
  /\ pc[r] = "respond"
  /\ mode[r] = "chat"
  /\ response' = [response EXCEPT ![r] =
                    [Answer(result[r], context_found[r], context[r])
                       EXCEPT !.processing_time = ProcessingTime(start_time[r], now)]]
  /\ pc' = [pc EXCEPT ![r] = "done"]
  /\ UNCHANGED <<api_token, input, query, context, context_found, attempt,
                 wait_time, result, log, mode, llm_health, now, start_time>>

\* generate_response is over: health_check returns (llm_client.py:170-172)
ProbeReturns(r) ==
  /\ pc[r] = "respond"
  /\ mode[r] = "probe"
  /\ llm_health' = [llm_health EXCEPT ![r] = Health(HealthOf(result[r]))]
  /\ pc' = [pc EXCEPT ![r] = "done"]
  /\ UNCHANGED <<api_token, input, query, context, context_found, attempt,
                 wait_time, result, response, log, mode, now, start_time>>

Next ==
  \E r \in Sequential :
    \/ \E v \in Inputs : Receive(r, v)
    \/ \E ctx \in Contexts : Search(r, ctx)
    \/ \E f \in Faults : SearchFaults(r, f)
    \/ Probe(r)
    \/ GenerateStart(r)
    \/ SendPost(r)
    \/ \E o \in PostOutcomes : PostReturns(r, o, 0)
    \/ SleepElapsed(r)
    \/ Respond(r)
    \/ ProbeReturns(r)

\* one request at a time, every input; only the sleeps take time
Spec == Init /\ [][Next]_vars

\* one chat request with few inputs, where the posts take time too
TimedInputs == {<<"q">>, <<" ", "q">>}
TimedContexts == {<<>>, <<"k">>}

NextTimed ==
  \E r \in Sequential :
    \/ \E v \in TimedInputs : Receive(r, v)
    \/ \E ctx \in TimedContexts : Search(r, ctx)
    \/ \E f \in Faults : SearchFaults(r, f)
    \/ GenerateStart(r)
    \/ SendPost(r)
    \/ \E o \in PostOutcomes : \E d \in Latencies : PostReturns(r, o, d)
    \/ SleepElapsed(r)
    \/ Respond(r)

TimedSpec == Init /\ [][NextTimed]_vars

\* both requests at once, in any interleaving, with few inputs
ConcInputs == {<<"q">>}
ConcContexts == {<<"k">>}
ConcOutcomes ==
  {o \in PostOutcomes :
     \/ o.kind = "timeout"
     \/ o.status \in {StatusRateLimit, 500}
     \/ o.has_content /\ o.content = <<"m">>}

ConcStep(r) ==
  \/ \E v \in ConcInputs : Receive(r, v)
  \/ \E ctx \in ConcContexts : Search(r, ctx)
  \/ SearchFaults(r, "ConnectionError")
  \/ Probe(r)
  \/ GenerateStart(r)
  \/ SendPost(r)
  \/ \E o \in ConcOutcomes : PostReturns(r, o, 0)
  \/ SleepElapsed(r)
  \/ Respond(r)
  \/ ProbeReturns(r)

NextConc == \E r \in Reqs : ConcStep(r)

ConcSpec == Init /\ [][NextConc]_vars

\* the event loop runs every task that can go on: retrieval returns or raises,
\* a post ends (by its 30 s timeout at the latest), a sleep elapses
LiveSpec == ConcSpec /\ \A r \in Reqs : WF_vars(ConcStep(r))

\* ------------------------------------------- observations on a run
PostIdx(r) == {i \in DOMAIN log[r] : log[r][i].ev = "post"}

\* number of http_client.post calls the request has issued
NetworkCalls(r) == Cardinality(PostIdx(r))

RECURSIVE SumDur(_)
SumDur(l) == IF l = <<>> THEN 0 ELSE Head(l).dur + SumDur(Tail(l))

\* total time the request has spent in asyncio.sleep
TotalWait(r) == SumDur(log[r])

IsPost(e) == e.ev = "post"

\* the outcomes of the request's posts, in order
PostKinds(r) ==
  LET posts == SelectSeq(log[r], IsPost) IN
    [i \in 1..Len(posts) |->
       [kind |-> posts[i].outcome.kind, status |-> posts[i].outcome.status]]

TimedOut == [kind |-> "timeout", status |-> 0]
Failed == [kind |-> "error", status |-> 0]
Status(n) == [kind |-> "response", status |-> n]

RetrievalReturned(r) ==
  \E i \in DOMAIN log[r] :
    log[r][i].ev = "search" /\ log[r][i].outcome.kind = "returned"

Contains(t, s) ==
  \E i \in 0..(Len(t) - Len(s)) : SubSeq(t, i + 1, i + Len(s)) = s

SpecialistPhrases ==
  {"Obratites' k specialistam po telefonu.",
   "Pozhaluysta, obratites' k specialistam po telefonu ili cherez sayt."}

ContainsGuidance(t) == \E i \in DOMAIN t : t[i] \in SpecialistPhrases

FailureKinds ==
  {"Unconfigured", "NetworkFailure", "TimeoutFailure", "ApiError", "AttemptsExhausted"}

\* how the spec names the way generate_response ended
FailureKindOf(r) ==
  IF result[r].outcome = "raise" THEN result[r].error
  ELSE IF result[r].outcome = "return" /\ api_token = NoToken /\ Strip(query[r]) # <<>>
    THEN "Unconfigured"
  ELSE "none"

Done(r) == pc[r] = "done"

\* --------------------------------------------------------- claims

\* C1: whenever retrieval returned a non-empty context and generation ended in
\* any FailureKind (Unconfigured included), the response text contains the
\* context verbatim and context_found is true.
C1_FailureEchoesContext ==
  \A r \in Reqs :
    (Done(r) /\ RetrievalReturned(r) /\ context[r] # <<>>
       /\ FailureKindOf(r) \in FailureKinds)
    => /\ response[r].kind = "ChatResponse"
       /\ Contains(response[r].text, context[r])
       /\ response[r].context_found

\* C2: whenever retrieval returned empty and generation ended in any
\* FailureKind, the response text guides to a specialist, holds no character
\* of retrieved context, and context_found is false.
C2_NoContextFailureGuides ==
  \A r \in Reqs :
    (Done(r) /\ RetrievalReturned(r) /\ context[r] = <<>>
       /\ FailureKindOf(r) \in FailureKinds)
    => /\ response[r].kind = "ChatResponse"
       /\ ContainsGuidance(response[r].text)
       /\ \A i \in DOMAIN response[r].text : response[r].text[i] \notin CtxChars
       /\ ~response[r].context_found

C2_Witness ==
  \E r \in Reqs :
    /\ Done(r) /\ context[r] = <<>> /\ RetrievalReturned(r)
    /\ FailureKindOf(r) = "NetworkFailure"
    /\ response[r].text = FallbackNoContextText

\* C3: when retrieval returned, the request ends in a well-formed ChatResponse
\* whatever the generation endpoint did; no generation failure becomes an error
\* of the whole request.
C3_GenerationNeverFailsRequest ==
  \A r \in Reqs :
    (Done(r) /\ RetrievalReturned(r))
    => /\ response[r].kind = "ChatResponse"
       /\ response[r].context_found \in BOOLEAN
       /\ response[r].context_found = (context[r] # <<>>)
       /\ (result[r].outcome = "raise" => response[r].text # <<>>)

C3_Witness ==
  \E r \in Reqs :
    /\ Done(r) /\ RetrievalReturned(r)
    /\ PostKinds(r) = <<TimedOut, Status(429), Failed>>
    /\ result[r].outcome = "raise"
    /\ response[r].kind = "ChatResponse"

\* C4: with no api_token configured generate ends in the Unconfigured failure
\* (a failure, not a returned text), with no network call and no wait.
C4_UnconfiguredIsFailure ==
  \A r \in Reqs :
    (api_token = NoToken /\ result[r].outcome # "none")
    => /\ result[r].outcome = "raise"
       /\ result[r].error = "Unconfigured"
       /\ NetworkCalls(r) = 0
       /\ TotalWait(r) = 0

\* C5: one generate call issues at most 3 posts (attempts 0, 1, 2) and none
\* after a post answered with status 200 or with a status other than 429.
C5_AtMostThreeCalls ==
  \A r \in Reqs :
    /\ NetworkCalls(r) <= 3
    /\ \A i \in PostIdx(r) :
         /\ log[r][i].attempt \in {0, 1, 2}
         /\ (log[r][i].outcome.kind = "response" /\ log[r][i].outcome.status # 429)
            => \A j \in PostIdx(r) : j <= i

C5_Witness ==
  \E r \in Reqs :
    /\ Done(r) /\ NetworkCalls(r) = 3
    /\ PostKinds(r) = <<Status(429), TimedOut, Status(500)>>
    /\ log[r][Len(log[r])].ev = "post"

\* C6: a response with a status other than 200 and 429 on attempt k ends
\* generate with ApiError at once: nothing (no wait, no post) follows it; on
\* attempt 0 that is 1 network call and a total wait of 0.
C6_ApiErrorImmediate ==
  \A r \in Reqs : \A i \in PostIdx(r) :
    LET e == log[r][i] IN
      (e.outcome.kind = "response" /\ e.outcome.status \notin {200, 429})
      => /\ i = Len(log[r])
         /\ pc[r] \in {"respond", "done"}
         /\ result[r] = Raise("ApiError", e.outcome.status)
         /\ (e.attempt = 0 => NetworkCalls(r) = 1 /\ TotalWait(r) = 0)

C6_Witness ==
  \E r \in Reqs :
    /\ Done(r) /\ PostKinds(r) = <<Status(401)>>
    /\ result[r].error = "ApiError" /\ TotalWait(r) = 0

\* C7: a timeout on attempt 0 or 1 is followed by a wait of exactly 1 and then
\* the next attempt; a timeout on attempt 2 ends generate with TimeoutFailure
\* and no wait. Three timeouts: TimeoutFailure, 3 calls, total wait 2.
C7_TimeoutRetry ==
  \A r \in Reqs :
    /\ \A i \in PostIdx(r) :
         LET e == log[r][i] IN
           e.outcome.kind = "timeout" =>
             IF e.attempt \in {0, 1}
               THEN /\ (i = Len(log[r]) => pc[r] = "sleep" /\ wait_time[r] = 1)
                    /\ (i < Len(log[r]) => log[r][i + 1] = SleepEvent(e.attempt, 1))
                    /\ (i + 1 < Len(log[r]) =>
                          /\ log[r][i + 2].ev = "post"
                          /\ log[r][i + 2].attempt = e.attempt + 1)
                    /\ (Done(r) => i + 1 < Len(log[r]))
               ELSE /\ i = Len(log[r])
                    /\ result[r] = Raise("TimeoutFailure", 0)
    /\ PostKinds(r) = <<TimedOut, TimedOut, TimedOut>>
       => /\ result[r] = Raise("TimeoutFailure", 0)
          /\ NetworkCalls(r) = 3
          /\ TotalWait(r) = 2

C7_Witness ==
  \E r \in Reqs :
    /\ Done(r) /\ PostKinds(r) = <<TimedOut, TimedOut, TimedOut>>
    /\ result[r].error = "TimeoutFailure"

\* C8: a transport error on attempt 0 or 1 is followed by a wait of exactly 1
\* and then the next attempt; on attempt 2 it ends generate with
\* NetworkFailure and no wait.
C8_TransportErrorRetry ==
  \A r \in Reqs : \A i \in PostIdx(r) :
    LET e == log[r][i] IN
      e.outcome.kind = "error" =>
        IF e.attempt \in {0, 1}
          THEN /\ (i = Len(log[r]) => pc[r] = "sleep" /\ wait_time[r] = 1)
               /\ (i < Len(log[r]) => log[r][i + 1] = SleepEvent(e.attempt, 1))
               /\ (i + 1 < Len(log[r]) =>
                     /\ log[r][i + 2].ev = "post"
                     /\ log[r][i + 2].attempt = e.attempt + 1)
               /\ (Done(r) => i + 1 < Len(log[r]))
          ELSE /\ i = Len(log[r])
               /\ result[r] = Raise("NetworkFailure", 0)

C8_Witness ==
  \E r \in Reqs :
    /\ Done(r) /\ PostKinds(r) = <<Failed, Failed, Failed>>
    /\ result[r].error = "NetworkFailure" /\ TotalWait(r) = 2

\* the waits 2^k the spec gives for a rate limit on attempt k = 0, 1, 2
ExpectedBackoff == <<1, 2, 4>>

\* C9: a 429 on attempt k is followed by a wait of exactly 2^k and uses up
\* slot k (the next post, if any, is attempt k+1); 429, 429, then a 200 with
\* content gives that content, trimmed, after 3 calls and a total wait of 3.
C9_RateLimitBackoff ==
  \A r \in Reqs :
    /\ \A i \in PostIdx(r) :
         LET e == log[r][i] IN
           (e.outcome.kind = "response" /\ e.outcome.status = 429) =>
             /\ (i = Len(log[r]) =>
                   pc[r] = "sleep" /\ wait_time[r] = ExpectedBackoff[e.attempt + 1])
             /\ (i < Len(log[r]) =>
                   log[r][i + 1] = SleepEvent(e.attempt, ExpectedBackoff[e.attempt + 1]))
             /\ (i + 1 < Len(log[r]) =>
                   /\ log[r][i + 2].ev = "post"
                   /\ log[r][i + 2].attempt = e.attempt + 1)
    /\ (PostKinds(r) = <<Status(429), Status(429), Status(200)>> /\ log[r][Len(log[r])].outcome.has_content)
       => /\ result[r] = Return(Strip(log[r][Len(log[r])].outcome.content))
          /\ NetworkCalls(r) = 3
          /\ TotalWait(r) = 3

C9_Witness ==
  \E r \in Reqs :
    /\ Done(r) /\ PostKinds(r) = <<Status(429), Status(429), Status(200)>>
    /\ log[r][Len(log[r])].outcome.content = <<" ", "m">>
    /\ response[r].text = <<"m">>
    /\ TotalWait(r) = 3

\* C10: a 429 on attempt 2 is still followed by a wait of 4, then by no
\* fourth post and AttemptsExhausted; three 429s: AttemptsExhausted, 3 calls,
\* total wait 7.
C10_FinalRateLimit ==
  \A r \in Reqs :
    /\ \A i \in PostIdx(r) :
         LET e == log[r][i] IN
           (e.outcome.kind = "response" /\ e.outcome.status = 429 /\ e.attempt = 2) =>
             /\ NetworkCalls(r) = 3
             /\ (i = Len(log[r]) =>
                   pc[r] = "sleep" /\ wait_time[r] = 4 /\ result[r] = NoResult)
             /\ (i < Len(log[r]) =>
                   /\ Len(log[r]) = i + 1
                   /\ log[r][i + 1] = SleepEvent(2, 4)
                   /\ result[r] = Raise("AttemptsExhausted", 0))
             /\ (Done(r) => i < Len(log[r]))
    /\ (PostKinds(r) = <<Status(429), Status(429), Status(429)>> /\ pc[r] \in {"respond", "done"})
       => /\ result[r] = Raise("AttemptsExhausted", 0)
          /\ NetworkCalls(r) = 3
          /\ TotalWait(r) = 7

C10_Witness ==
  \E r \in Reqs :
    /\ Done(r) /\ PostKinds(r) = <<Status(429), Status(429), Status(429)>>
    /\ result[r].error = "AttemptsExhausted" /\ TotalWait(r) = 7

Accepted(r) == mode[r] = "chat" /\ pc[r] # "rejected"

RetrievalRaised(r) ==
  \E i \in DOMAIN log[r] :
    log[r][i].ev = "search" /\ log[r][i].outcome.kind = "raised"

StartsWith(t, p) == Len(t) >= Len(p) /\ SubSeq(t, 1, Len(p)) = p

\* t holds a and, somewhere after it, b
ContainsThen(t, a, b) ==
  \E i \in 0..(Len(t) - Len(a)) :
    /\ SubSeq(t, i + 1, i + Len(a)) = a
    /\ \E j \in (i + Len(a))..(Len(t) - Len(b)) : SubSeq(t, j + 1, j + Len(b)) = b

\* C11: when retrieval returned a non-empty context and an attempt was
\* answered 200 with content, the response has context_found = true and its
\* text is that content trimmed: not the context, not a fallback text.
C11_SuccessGivesTrimmedAnswer ==
  \A r \in Reqs : \A i \in PostIdx(r) :
    LET o == log[r][i].outcome IN
      (Done(r) /\ RetrievalReturned(r) /\ context[r] # <<>>
         /\ o.kind = "response" /\ o.status = 200 /\ o.has_content)
      => /\ response[r].kind = "ChatResponse"
         /\ response[r].context_found
         /\ response[r].text = Strip(o.content)
         /\ response[r].text # context[r]
         /\ ~StartsWith(response[r].text, FallbackContextPrefix)
         /\ response[r].text # FallbackNoContextText

C11_Witness ==
  \E r \in Reqs :
    /\ Done(r) /\ context[r] = <<"k">>
    /\ PostKinds(r) = <<TimedOut, Status(200)>>
    /\ log[r][Len(log[r])].outcome.content = <<"m", " ">>
    /\ response[r].text = <<"m">>
    /\ response[r].context_found

\* C12: the empty text, a text of blanks only and a text longer than 1000
\* characters are refused at validation: retrieval is not called and no post
\* is issued for them.
C12_InvalidQueryRejected ==
  \A r \in Reqs :
    (mode[r] = "chat"
       /\ (input[r] = <<>> \/ Strip(input[r]) = <<>> \/ Len(input[r]) > 1000))
    => /\ pc[r] = "rejected"
       /\ response[r].kind = "ValidationError"
       /\ log[r] = <<>>
       /\ result[r] = NoResult

C12_Witness ==
  \E r \in Reqs :
    /\ pc[r] = "rejected" /\ Len(input[r]) = 1001 /\ Strip(input[r]) = input[r]
    /\ log[r] = <<>>

\* C13 as stated: a query is accepted exactly when its trimmed length is in
\* 1..1000, every accepted query ends in a ChatResponse, and the query handed
\* on is the trimmed text.
C13_AcceptedIffTrimmedLength ==
  \A r \in Reqs :
    mode[r] = "chat" =>
      /\ Accepted(r) <=> (Len(Strip(input[r])) >= 1 /\ Len(Strip(input[r])) <= 1000)
      /\ (Accepted(r) /\ Done(r)) => response[r].kind = "ChatResponse"
      /\ Accepted(r) => query[r] = Strip(input[r])

\* C13 amended: a query is accepted exactly when the text as sent has 1..1000
\* characters and is not empty after trimming; every accepted query whose
\* retrieval returns ends in a ChatResponse; the query handed to retrieval and
\* to the prompt is the trimmed text.
C13_AcceptedIffRawLength ==
  \A r \in Reqs :
    mode[r] = "chat" =>
      /\ Accepted(r) <=>
           (Len(input[r]) >= 1 /\ Len(input[r]) <= 1000 /\ Strip(input[r]) # <<>>)
      /\ (Accepted(r) /\ Done(r) /\ RetrievalReturned(r))
           => response[r].kind = "ChatResponse"
      /\ Accepted(r) =>
           /\ query[r] = Strip(input[r])
           /\ \A i \in DOMAIN log[r] :
                /\ log[r][i].ev = "search" => log[r][i].query = Strip(input[r])
                /\ log[r][i].ev = "post" =>
                     log[r][i].messages = BuildMessages(Strip(input[r]), context[r])

C13_Witness ==
  \E r \in Reqs :
    /\ Done(r) /\ Len(input[r]) = 1000 /\ Len(query[r]) = 999
    /\ response[r].kind = "ChatResponse"
    /\ NetworkCalls(r) = 1

\* C14: in every ChatResponse context_found says whether the retrieval result
\* was non-empty, however generation ended.
C14_ContextFoundIsRetrieval ==
  \A r \in Reqs :
    response[r].kind = "ChatResponse" =>
      /\ RetrievalReturned(r)
      /\ response[r].context_found = (context[r] # <<>>)

C14_Witness ==
  \E r \in Reqs :
    /\ Done(r) /\ context[r] = <<" ">>
    /\ result[r].error = "AttemptsExhausted"
    /\ response[r].kind = "ChatResponse" /\ response[r].context_found

\* C15: when retrieval raises, the request ends in the internal-error response:
\* one fixed text whatever was raised, different from both fallback texts, and
\* no post is issued.
C15_RetrievalFaultIsInternalError ==
  \A r \in Reqs :
    RetrievalRaised(r) =>
      /\ Done(r)
      /\ response[r].kind = "HTTPException"
      /\ response[r].text = InternalErrorDetail
      /\ response[r].text # FallbackNoContextText
      /\ ~StartsWith(response[r].text, FallbackContextPrefix)
      /\ NetworkCalls(r) = 0
      /\ result[r] = NoResult

C15_Witness ==
  \E r \in Reqs :
    /\ Done(r) /\ Len(log[r]) = 1
    /\ log[r][1].outcome = RaisedWith("ValueError")
    /\ response[r].kind = "HTTPException"

\* C16: health_check returns true exactly when its generate call gave a
\* non-empty text and ended in no FailureKind; on every FailureKind,
\* Unconfigured included, it returns false.
C16_ProbeTrueIffOk ==
  \A r \in Reqs :
    (mode[r] = "probe" /\ Done(r)) =>
      /\ llm_health[r].returned
      /\ llm_health[r].value <=>
           (result[r].outcome = "return" /\ result[r].text # <<>>
              /\ FailureKindOf(r) = "none")
      /\ FailureKindOf(r) \in FailureKinds => ~llm_health[r].value

\* C17: processing_time is the rounded clock difference between the receipt of
\* the query and the assembly of the response; it is >= 0 and at least the sum
\* of the waits of the request (in milliseconds).
C17_ProcessingTimeCoversWaits ==
  \A r \in Reqs :
    response[r].kind = "ChatResponse" =>
      /\ response[r].processing_time = Round3(now - start_time[r])
      /\ response[r].processing_time >= 0
      /\ response[r].processing_time >= TotalWait(r) * MsPerSecond

C17_Witness ==
  \E r \in Reqs :
    /\ Done(r) /\ response[r].kind = "ChatResponse"
    /\ PostKinds(r) = <<Status(429), Status(429), Status(200)>>
    /\ TotalWait(r) = 3
    /\ (now - start_time[r]) % TicksPerMs = 1
    /\ response[r].processing_time >= 3000

\* C18: every prompt is two messages, the system message with the persona and
\* then the user message; with a context the user message holds the context
\* and after it the query, without one it holds the query and the statement
\* that nothing was found; the posts of one request carry the same prompt.
C18_PromptShape ==
  \A r \in Reqs : \A i \in PostIdx(r) :
    LET m == log[r][i].messages IN
      /\ Len(m) = 2
      /\ m[1] = [role |-> "system", content |-> SystemContent]
      /\ m[2].role = "user"
      /\ IF context[r] # <<>>
           THEN /\ ContainsThen(m[2].content, context[r], query[r])
                /\ \A j \in DOMAIN m[2].content : m[2].content[j] # NothingFound
           ELSE /\ Contains(m[2].content, query[r])
                /\ \E j \in DOMAIN m[2].content : m[2].content[j] = NothingFound
      /\ \A j \in PostIdx(r) : log[r][j].messages = m

C18_Witness ==
  \E r \in Reqs :
    /\ Done(r) /\ NetworkCalls(r) = 2
    /\ context[r] = <<"k", " ">> /\ query[r] = <<"q", "q">>
    /\ ContainsThen(log[r][2].messages[2].content, <<"k", " ">>, <<"q", "q">>)

\* C19: the attempts of one request are strictly sequential under every
\* interleaving with the other request: at most one post is in flight, it is
\* the last thing the request did, and attempt k+1 is issued only after
\* attempt k has ended and the wait after it has elapsed.
C19_AttemptsSequential ==
  \A r \in Reqs :
    /\ Cardinality({i \in PostIdx(r) : log[r][i].outcome.kind = "pending"}) <= 1
    /\ (pc[r] = "inflight") <=>
         (log[r] # <<>> /\ log[r][Len(log[r])].ev = "post"
            /\ log[r][Len(log[r])].outcome.kind = "pending")
    /\ \A i \in PostIdx(r) :
         LET e == log[r][i] IN
           /\ e.outcome.kind = "pending" => i = Len(log[r])
           /\ e.attempt = 0 => \A j \in PostIdx(r) : j >= i
           /\ e.attempt > 0 =>
                /\ i > 2
                /\ log[r][i - 1].ev = "sleep"
                /\ log[r][i - 1].attempt = e.attempt - 1
                /\ log[r][i - 1].dur >= 1
                /\ log[r][i - 2].ev = "post"
                /\ log[r][i - 2].attempt = e.attempt - 1
                /\ log[r][i - 2].outcome.kind \in {"response", "timeout", "error"}

C19_Witness ==
  /\ pc[1] = "inflight" /\ attempt[1] = 2
  /\ pc[2] = "inflight" /\ attempt[2] = 1

\* C20: every request that entered the handler ends with a response (a
\* ChatResponse with the model text or a fallback text, or the internal
\* error), given that retrieval, posts and sleeps end.
C20_EveryRequestCompletes ==
  \A r \in Reqs :
    (pc[r] = "search") ~>
      (pc[r] = "done" /\ response[r].kind \in {"ChatResponse", "HTTPException"})

C20_Witness ==
  \E r \in Reqs :
    /\ Done(r) /\ mode[r] = "chat"
    /\ PostKinds(r) = <<Status(429), TimedOut, Status(429)>>
    /\ response[r].kind = "ChatResponse"

\* the outcome of the request's post of attempt k is of kind kd (and status st)
AttemptEnded(r, k, kd, st) ==
  \E i \in PostIdx(r) :
    /\ log[r][i].attempt = k
    /\ log[r][i].outcome.kind = kd
    /\ log[r][i].outcome.status = st

\* C21: once generate has ended, AttemptsExhausted is its failure exactly when
\* attempt 2 was issued and answered 429; a timeout on attempt 2 gives
\* TimeoutFailure and a transport error on attempt 2 NetworkFailure, whatever
\* attempts 0 and 1 ended in.
C21_LastAttemptDecides ==
  \A r \in Reqs :
    result[r].outcome # "none" =>
      /\ (result[r].error = "AttemptsExhausted") <=> AttemptEnded(r, 2, "response", 429)
      /\ AttemptEnded(r, 2, "timeout", 0) => result[r] = Raise("TimeoutFailure", 0)
      /\ AttemptEnded(r, 2, "error", 0) => result[r] = Raise("NetworkFailure", 0)
      /\ PostKinds(r) = <<Status(429), Status(429), TimedOut>>
           => result[r].error = "TimeoutFailure"
      /\ PostKinds(r) = <<TimedOut, TimedOut, Status(429)>>
           => result[r].error = "AttemptsExhausted"

C21_Witness ==
  \E r \in Reqs :
    /\ Done(r) /\ PostKinds(r) = <<TimedOut, Failed, Status(429)>>
    /\ result[r].error = "AttemptsExhausted"

\* C22: for every retrieval result, the empty one included, a prompt sent for
\* the request uses the "nothing found" user message exactly when the
\* ChatResponse of the request has context_found = false.
C22_PromptAgreesWithFlag ==
  \A r \in Reqs : \A i \in PostIdx(r) :
    response[r].kind = "ChatResponse" =>
      LET user == log[r][i].messages[2].content IN
        /\ (\E j \in DOMAIN user : user[j] = NothingFound) <=> ~response[r].context_found
        /\ Contains(user, <<KnowledgeHeader>>) <=> response[r].context_found

C22_Witness ==
  \E r \in Reqs :
    /\ Done(r) /\ context[r] = <<" ">> /\ NetworkCalls(r) = 2
    /\ response[r].kind = "ChatResponse" /\ response[r].context_found
    /\ Contains(log[r][2].messages[2].content, <<KnowledgeHeader>>)

\* C23: a 200 whose body holds no content of a first choice ends generate with
\* a failure at once (no wait, no further post), and the chat request is
\* answered with the fallback text that goes with its context_found, not with
\* the internal-error response.
C23_BodyWithoutContentFallsBack ==
  \A r \in Reqs : \A i \in PostIdx(r) :
    LET o == log[r][i].outcome IN
      (o.kind = "response" /\ o.status = 200 /\ ~o.has_content) =>
        /\ i = Len(log[r])
        /\ pc[r] \in {"respond", "done"}
        /\ result[r].outcome = "raise"
        /\ (Done(r) /\ mode[r] = "chat") =>
             /\ response[r].kind = "ChatResponse"
             /\ response[r].context_found = (context[r] # <<>>)
             /\ response[r].text =
                  IF response[r].context_found
                    THEN FallbackContextPrefix \o context[r]
                    ELSE FallbackNoContextText
             /\ response[r].text # InternalErrorDetail

C23_Witness ==
  \E r \in Reqs :
    /\ Done(r) /\ mode[r] = "chat" /\ context[r] = <<"k">>
    /\ PostKinds(r) = <<Status(429), Status(200)>>
    /\ ~log[r][Len(log[r])].outcome.has_content
    /\ TotalWait(r) = 1
    /\ response[r].text = FallbackContextPrefix \o <<"k">>

====
